---- MODULE Spec2Model ----
(***************************************************************************)
(* Voice interview screen (VoiceInterviewScreen.tsx) and the browser       *)
(* speech-output adapter (speechSynthesis.ts) as a state machine.          *)
(*                                                                         *)
(* Every async handler of the component is split at its awaits: the        *)
(* command action runs the handler up to its first await and leaves a      *)
(* continuation in `pending`; a settle action takes one continuation,      *)
(* picks the outcome of the awaited promise (resolve or reject, with its   *)
(* payload) and runs the handler to its next await or to its end.          *)
(* Values a handler reads from its render closure (voiceSession) are       *)
(* captured in the continuation when the command is invoked.               *)
(***************************************************************************)
EXTENDS Integers, Sequences, FiniteSets, Bags, TLC

VARIABLES
    isInterviewActive,  \* useState(false)                  line 41
    currentQuestion,    \* useState('')                     line 42
    startTime,          \* useState<number|null>(null)      line 44
    isThinking,         \* useState(false)                  line 46
    voiceSession,       \* useState<any>(null)              line 47
    connectionStatus,   \* useState('disconnected')         line 48
    isListening,        \* useSpeechRecognition().isListening
    transcript,         \* useSpeechRecognition().transcript
    livekitConnected,   \* useLiveKit().isConnected
    livekitConnecting,  \* useLiveKit().isConnecting
    livekitError,       \* useLiveKit().error (present or absent)
    localAudioTrack,    \* useLiveKit().localAudioTrack (present or absent)
    openSessions,       \* remote sessions created and not yet ended
    nextSession,        \* id the remote service gives the next session
    endNotified,        \* number of onEndInterview(simulator) calls
    pending,            \* bag of suspended handler continuations
    currentUtterance,   \* BrowserTTS.currentUtterance (0 = null)
    platformQueue,      \* utterances the platform holds, neither ended nor cancelled
    nextUtt,            \* id of the next speak() call and of its utterance
    isSupported,        \* BrowserTTS.isSupported (synthesis is then non-null)
    cancelled,          \* utterances synthesis.cancel() removed, terminal event still due
    callLog,            \* per speak() call: callbacks fired, values resolved
    voices,             \* BrowserTTS.voices, the loaded catalog
    preferredVoice,     \* the last getPreferredVoice(lang) call and what it returned
    speechSupported,    \* useSpeechRecognition().isSupported      line 58
    effectsPending,     \* effects the last render queued that have not run yet
    tickInterval,       \* the 1 s interval of the timer effect is alive
    audioInterval,      \* the 100 ms interval of the audio level effect is alive
    last                \* history: the last step and the calls it issued

screenVars == <<isInterviewActive, currentQuestion, startTime, isThinking,
                voiceSession>>
coordVars == <<screenVars, connectionStatus>>
speechVars == <<isListening, transcript>>
lkVars == <<livekitConnected, livekitConnecting, livekitError, localAudioTrack>>
remoteVars == <<openSessions, nextSession>>
effectVars == <<effectsPending, tickInterval, audioInterval>>
ttsVars == <<currentUtterance, platformQueue, nextUtt, isSupported, cancelled, callLog,
             voices, preferredVoice>>
vars == <<coordVars, speechVars, lkVars, remoteVars, endNotified, pending,
          ttsVars, speechSupported, effectVars, last>>

(* ------------------------------ bounds --------------------------------- *)
\* Most handler continuations suspended at the same time.
MaxInFlight == 2
\* Most remote sessions the service creates in one run.
MaxSessions == 2
\* Most onEndInterview notifications followed in one run.
MaxEnds == 2
\* Longest transcript, in characters.
MaxTranscriptLen == 1
\* Most utterances spoken through the adapter while the screen is followed.
MaxUttCoord == 1
\* Most speak() calls made on the adapter when it is followed alone.
MaxUttTts == 3
\* Most voices in a catalog.
MaxCatalogLen == 3
\* Most start events the platform delivers for one utterance.
MaxStartEvents == 2

(* ------------------------------ values --------------------------------- *)
NoSession == 0
NoTime == 0
NoQuestion == "undefined"
NoUtterance == 0
FirstQuestions == {NoQuestion, "q1"}
NextQuestions == {NoQuestion, "q2"}
Chars == {" ", "a"}
RECURSIVE SeqsUpTo(_)
SeqsUpTo(n) ==
    IF n = 0 THEN {<<>>}
    ELSE LET shorter == SeqsUpTo(n - 1)
         IN  shorter \cup {Append(s, c) : s \in {t \in shorter : Len(t) = n - 1}, c \in Chars}
Transcripts == SeqsUpTo(MaxTranscriptLen)
NoResult == [isComplete |-> FALSE, nextQuestion |-> NoQuestion]
Results == [isComplete : BOOLEAN, nextQuestion : NextQuestions]

(* String.prototype.trim on a transcript: whitespace off both ends. *)
RECURSIVE TrimLeft(_)
TrimLeft(s) ==
    IF s # <<>> /\ Head(s) = " " THEN TrimLeft(Tail(s)) ELSE s
RECURSIVE TrimRight(_)
TrimRight(s) ==
    IF s # <<>> /\ s[Len(s)] = " " THEN TrimRight(SubSeq(s, 1, Len(s) - 1)) ELSE s
(* Mutant: the guard tests the transcript without trimming it. *)
TrimIdentity(s) == s
Trim(s) == TrimRight(TrimLeft(s))

(* ---------------- strings of the voice catalog, as characters ---------- *)
Upper == <<"A", "B", "C", "D", "E", "F", "G", "H", "I", "J", "K", "L", "M", "N", "O", "P", "Q", "R", "S", "T", "U", "V", "W", "X", "Y", "Z">>
Lower == <<"a", "b", "c", "d", "e", "f", "g", "h", "i", "j", "k", "l", "m", "n", "o", "p", "q", "r", "s", "t", "u", "v", "w", "x", "y", "z">>
(* String.prototype.toLowerCase *)
ToLowerChar(c) ==
    IF \E i \in 1..Len(Upper) : Upper[i] = c
    THEN Lower[CHOOSE i \in 1..Len(Upper) : Upper[i] = c]
    ELSE c
ToLower(str) == [i \in 1..Len(str) |-> ToLowerChar(str[i])]
(* String.prototype.startsWith and String.prototype.includes *)
StartsWith(str, prefix) ==
    Len(prefix) <= Len(str) /\ SubSeq(str, 1, Len(prefix)) = prefix
Includes(str, part) ==
    \E i \in 0..(Len(str) - Len(part)) : SubSeq(str, i + 1, i + Len(part)) = part
(* lang.split('-')[0] *)
RECURSIVE PrimarySubtag(_)
PrimarySubtag(lang) ==
    IF lang = <<>> \/ Head(lang) = "-" THEN <<>>
    ELSE <<Head(lang)>> \o PrimarySubtag(Tail(lang))

(* The tokens of lines 54-60. *)
HintTokens == {<<"f", "e", "m", "a", "l", "e">>,
               <<"w", "o", "m", "a", "n">>,
               <<"s", "a", "m", "a", "n", "t", "h", "a">>,
               <<"k", "a", "r", "e", "n">>,
               <<"z", "i", "r", "a">>,
               <<"s", "u", "s", "a", "n">>,
               <<"a", "l", "l", "i", "s", "o", "n">>}

Voice(name, lang) == [name |-> name, lang |-> lang]
VZira == Voice(<<"M", "i", "c", "r", "o", "s", "o", "f", "t", " ", "Z", "i", "r", "a">>, <<"e", "n", "-", "U", "S">>)
VGeneric == Voice(<<"G", "e", "n", "e", "r", "i", "c">>, <<"e", "n", "-", "G", "B">>)
VKaren == Voice(<<"K", "A", "R", "E", "N">>, <<"f", "r", "-", "F", "R">>)
VTom == Voice(<<"T", "o", "m">>, <<"e", "n", "-", "U", "S">>)
VAmy == Voice(<<"A", "m", "y">>, <<"d", "e", "-", "D", "E">>)
Voices == {VZira, VGeneric, VKaren, VTom, VAmy}
QueryLangs == {<<"e", "n", "-", "U", "S">>, <<"f", "r", "-", "F", "R">>, <<"e", "n">>, <<"d", "e", "-", "A", "T">>, <<"e", "s", "-", "E", "S">>, <<"E", "N">>, <<>>}
RECURSIVE CatalogsUpTo(_)
CatalogsUpTo(n) ==
    IF n = 0 THEN {<<>>}
    ELSE LET shorter == CatalogsUpTo(n - 1)
         IN  shorter \cup {Append(c, v) : c \in {t \in shorter : Len(t) = n - 1}, v \in Voices}
Catalogs == CatalogsUpTo(MaxCatalogLen)

(* A voice or null: a sequence of at most one voice. *)
NoVoice == <<>>
NoQuery == [asked |-> FALSE, lang |-> <<>>, voice |-> NoVoice]

(* A name that holds one of the tokens, lines 54-60. *)
IsHinted(v) == \E token \in HintTokens : Includes(ToLower(v.name), token)
(* Mutant: the search for a hinted voice is left out. *)
GetPreferredVoiceNoHint(catalog, lang) ==
    LET MatchesLang(v) == StartsWith(v.lang, PrimarySubtag(lang))
        langVoices == SelectSeq(catalog, MatchesLang)
    IN  IF Len(langVoices) > 0 THEN <<langVoices[1]>>
        ELSE IF Len(catalog) > 0 THEN <<catalog[1]>>
        ELSE NoVoice

(* getPreferredVoice, lines 50-79. *)
GetPreferredVoice(catalog, lang) ==
    LET MatchesLang(v) == StartsWith(v.lang, PrimarySubtag(lang))
        IsFemale(v) == MatchesLang(v) /\ IsHinted(v)
        femaleVoices == SelectSeq(catalog, IsFemale)
        langVoices == SelectSeq(catalog, MatchesLang)
    IN  IF Len(femaleVoices) > 0 THEN <<femaleVoices[1]>>
        ELSE IF Len(langVoices) > 0 THEN <<langVoices[1]>>
        ELSE IF Len(catalog) > 0 THEN <<catalog[1]>>
        ELSE NoVoice

(* session.firstQuestion || '' *)
OrEmpty(q) == IF q = NoQuestion THEN "" ELSE q

(* The connection status effect, lines 117-127. *)
DeriveStatus(connecting, connected, error) ==
    IF connecting THEN "connecting"
    ELSE IF connected THEN "connected"
    ELSE IF error THEN "error"
    ELSE "disconnected"

(* The dependencies of the three effects, lines 101, 114 and 127. *)
TimerDeps == <<isInterviewActive, startTime>>
AudioDeps == <<localAudioTrack>>
StatusDeps == <<livekitConnecting, livekitConnected, livekitError>>

(* What a render shows: the state of the component and of its two hooks,
   but for the connection status. *)
Rendered == <<screenVars, isListening, transcript, livekitConnected, livekitConnecting,
              livekitError, localAudioTrack>>

(* An effect is a callback of the render that queued it: it runs after that
   render, before the next one at the latest, and reads that render's
   values. These are the values a queued effect leaves when it runs; an
   effect that is not queued leaves things as they are. The status an
   effect sets is applied after the status a handler wrote. *)
StatusAfterEffects(written) ==
    IF "status" \in effectsPending
    THEN DeriveStatus(livekitConnecting, livekitConnected, livekitError)
    ELSE written
TickAfterEffects ==
    IF "timer" \in effectsPending
    THEN isInterviewActive /\ startTime # NoTime
    ELSE tickInterval
AudioAfterEffects ==
    IF "audio" \in effectsPending THEN localAudioTrack ELSE audioInterval

(* The effects a render queues: those with a dependency that differs from
   the previous render. *)
EffectsQueued ==
    {e \in {"timer"} : TimerDeps' # TimerDeps}
      \cup {e \in {"audio"} : AudioDeps' # AudioDeps}
      \cup {e \in {"status"} : StatusDeps' # StatusDeps}

(* The end of a step that wrote `written` to the connection status (its own
   value when the step wrote none), stated once the step's other state is
   known. A step that changed state makes React run the queued effects and
   render: the render queues the effects whose dependencies the step changed.
   A step that changed nothing renders nothing. *)
Render(written) ==
    IF Rendered' # Rendered \/ written # connectionStatus
    THEN /\ connectionStatus' = StatusAfterEffects(written)
         /\ tickInterval' = TickAfterEffects
         /\ audioInterval' = AudioAfterEffects
         /\ effectsPending' = EffectsQueued
    ELSE /\ connectionStatus' = connectionStatus
         /\ UNCHANGED effectVars

(* A suspended handler: which one, at which await, and what it still reads
   once resumed: the voiceSession of the render it was invoked from (a
   submission and an end read it; the others carry NoSession) and, for a
   submission, the remote result. *)
Cont(op, pc, vs, res) == [op |-> op, pc |-> pc, vs |-> vs, res |-> res]
Suspend(c) == pending (+) SetToBag({c})
Take(c) == pending (-) SetToBag({c})
InFlight == BagCardinality(pending)
(* How many continuations of handler op are suspended at await pc. *)
Suspended(op, pc) ==
    LET S == {c \in BagToSet(pending) : c.op = op /\ c.pc = pc}
    IN  BagCardinality([c \in S |-> pending[c]])
Step(op, pc, calls) == [op |-> op, pc |-> pc, calls |-> calls]

(* The session state the screen shows for a connection status: the pause button and the timer follow
   isInterviewActive, the host has been told the interview ended, the status
   badge shows error or connecting, the start button reads Resume once a
   start time exists. *)
SessionStateWith(status) ==
    IF isInterviewActive THEN "Active"
    ELSE IF endNotified > 0 THEN "Ended"
    ELSE IF status = "error" THEN "Error"
    ELSE IF status = "connecting" THEN "Connecting"
    ELSE IF startTime # NoTime THEN "Paused"
    ELSE "Idle"

SessionState == SessionStateWith(connectionStatus)

(* The component after its first render and the run of its effects, in a
   browser that has (speechInput) or lacks speech recognition. *)
InitScreen(speechInput) ==
    /\ speechSupported = speechInput
    /\ effectsPending = {}
    /\ tickInterval = FALSE
    /\ audioInterval = FALSE
    /\ isInterviewActive = FALSE
    /\ currentQuestion = ""
    /\ startTime = NoTime
    /\ isThinking = FALSE
    /\ voiceSession = NoSession
    /\ connectionStatus = "disconnected"
    /\ isListening = FALSE
    /\ transcript = <<>>
    /\ livekitConnected = FALSE
    /\ livekitConnecting = FALSE
    /\ livekitError = FALSE
    /\ localAudioTrack = FALSE
    /\ openSessions = {}
    /\ nextSession = 1
    /\ endNotified = 0
    /\ pending = EmptyBag
    /\ last = Step("init", "", {})

(* The adapter after its constructor, lines 15-37, on a platform that has
   (supported) or lacks the speech-synthesis capability. *)
InitAdapter(supported, catalog) ==
    /\ currentUtterance = NoUtterance
    /\ platformQueue = {}
    /\ nextUtt = 1
    /\ isSupported = supported
    /\ cancelled = {}
    /\ callLog = <<>>
    /\ voices = catalog
    /\ preferredVoice = NoQuery

(* The screen runs in a browser that has speech synthesis, with or without
   speech recognition. *)
Init == \E speechInput \in BOOLEAN : InitScreen(speechInput) /\ InitAdapter(TRUE, <<>>)

(* ------------------- startVoiceInterview, lines 135-156 ----------------- *)
StartVoiceInterview ==
    /\ InFlight < MaxInFlight
    /\ nextSession + Suspended("start", "session") <= MaxSessions
    /\ isThinking' = TRUE
    /\ pending' = Suspend(Cont("start", "session", NoSession, NoResult))
    /\ last' = Step("start", "invoke", {"startSession"})
    /\ UNCHANGED <<isInterviewActive, currentQuestion, startTime, voiceSession,
                   speechVars, lkVars, remoteVars, endNotified, ttsVars,
                   speechSupported>>
    /\ Render("connecting")

(* The awaited VoiceInterviewService.startVoiceInterview rejects: the catch
   block, lines 151-155. *)
StartSessionRejected ==
    \E c \in BagToSet(pending) :
        /\ c.op = "start" /\ c.pc = "session"
        /\ isThinking' = FALSE
        /\ pending' = Take(c)
        /\ last' = Step("start", "sessionRejected", {})
        /\ UNCHANGED <<isInterviewActive, currentQuestion, startTime,
                       voiceSession, speechVars, lkVars, remoteVars, endNotified,
                       ttsVars, speechSupported>>
        /\ Render("error")

(* It resolves: lines 142-146, up to the await of connectLiveKit(). The
   transport adapter reports connecting, which schedules the status effect. *)
StartSessionResolved ==
    \E c \in BagToSet(pending), q \in FirstQuestions :
        /\ c.op = "start" /\ c.pc = "session"
        /\ voiceSession' = nextSession
        /\ currentQuestion' = OrEmpty(q)
        /\ openSessions' = openSessions \cup {nextSession}
        /\ nextSession' = nextSession + 1
        /\ livekitConnecting' = TRUE
        /\ livekitError' = FALSE
        /\ pending' = Take(c) (+) SetToBag({Cont("start", "connect", NoSession, NoResult)})
        /\ last' = Step("start", "sessionResolved", {"connect"})
        /\ UNCHANGED <<isInterviewActive, startTime, isThinking, speechVars,
                       livekitConnected, localAudioTrack, endNotified, ttsVars,
                       speechSupported>>
        /\ Render(connectionStatus)

(* connectLiveKit() resolves: onConnected (lines 76-79), then lines 148-150.
   setStartTime(Date.now()) stores a time later than any stored before. *)
StartConnectResolved ==
    \E c \in BagToSet(pending) :
        /\ c.op = "start" /\ c.pc = "connect"
        /\ livekitConnecting' = FALSE
        /\ livekitConnected' = TRUE
        /\ isInterviewActive' = TRUE
        /\ startTime' = startTime + 1
        /\ isThinking' = FALSE
        /\ pending' = Take(c)
        /\ last' = Step("start", "connectResolved", {})
        /\ UNCHANGED <<currentQuestion, voiceSession, speechVars, livekitError,
                       localAudioTrack, remoteVars, endNotified, ttsVars,
                       speechSupported>>
        /\ Render("connected")

(* connectLiveKit() rejects: the adapter reports the error, then the catch
   block, lines 151-155. No end-session request is made. *)
StartConnectRejected ==
    \E c \in BagToSet(pending) :
        /\ c.op = "start" /\ c.pc = "connect"
        /\ livekitConnecting' = FALSE
        /\ livekitError' = TRUE
        /\ isThinking' = FALSE
        /\ pending' = Take(c)
        /\ last' = Step("start", "connectRejected", {})
        /\ UNCHANGED <<isInterviewActive, currentQuestion, startTime,
                       voiceSession, speechVars, livekitConnected,
                       localAudioTrack, remoteVars, endNotified, ttsVars,
                       speechSupported>>
        /\ Render("error")

(* ---------------------- pauseInterview, lines 158-170 ------------------- *)
PauseInterview ==
    /\ voiceSession # NoSession => InFlight < MaxInFlight
    /\ isInterviewActive' = FALSE
    /\ isListening' = FALSE
    /\ localAudioTrack' = FALSE
    /\ IF voiceSession # NoSession
       THEN /\ pending' = Suspend(Cont("pause", "remote", NoSession, NoResult))
            /\ last' = Step("pause", "invoke", {"stopListening", "stopAudio", "pauseSession"})
       ELSE /\ pending' = pending
            /\ last' = Step("pause", "invoke", {"stopListening", "stopAudio"})
    /\ UNCHANGED <<currentQuestion, startTime, isThinking, voiceSession,
                   transcript, livekitConnected, livekitConnecting, livekitError,
                   remoteVars, endNotified, ttsVars, speechSupported>>
    /\ Render(connectionStatus)

(* The awaited pauseInterview settles; a rejection is only logged. *)
PauseSettled ==
    \E c \in BagToSet(pending), ok \in BOOLEAN :
        /\ c.op = "pause" /\ c.pc = "remote"
        /\ pending' = Take(c)
        /\ last' = Step("pause", IF ok THEN "resolved" ELSE "rejected", {})
        /\ UNCHANGED <<coordVars, speechVars, lkVars, remoteVars, endNotified, ttsVars,
                       speechSupported, effectVars>>

(* --------------------- resumeInterview, lines 172-183 ------------------- *)
ResumeInterview ==
    /\ voiceSession # NoSession => InFlight < MaxInFlight
    /\ isInterviewActive' = TRUE
    /\ IF voiceSession # NoSession
       THEN /\ pending' = Suspend(Cont("resume", "remote", NoSession, NoResult))
            /\ last' = Step("resume", "invoke", {"resumeSession"})
       ELSE /\ pending' = pending
            /\ last' = Step("resume", "invoke", {})
    /\ UNCHANGED <<currentQuestion, startTime, isThinking, voiceSession,
                   speechVars, lkVars, remoteVars, endNotified, ttsVars,
                   speechSupported>>
    /\ Render(connectionStatus)

(* resumeInterview resolves: startAudio() is awaited next, line 178. *)
ResumeRemoteResolved ==
    \E c \in BagToSet(pending) :
        /\ c.op = "resume" /\ c.pc = "remote"
        /\ pending' = Take(c) (+) SetToBag({Cont("resume", "audio", NoSession, NoResult)})
        /\ last' = Step("resume", "remoteResolved", {"startAudio"})
        /\ UNCHANGED <<coordVars, speechVars, lkVars, remoteVars, endNotified, ttsVars,
                       speechSupported, effectVars>>

(* resumeInterview rejects: logged, lines 179-181. *)
ResumeRemoteRejected ==
    \E c \in BagToSet(pending) :
        /\ c.op = "resume" /\ c.pc = "remote"
        /\ pending' = Take(c)
        /\ last' = Step("resume", "remoteRejected", {})
        /\ UNCHANGED <<coordVars, speechVars, lkVars, remoteVars, endNotified, ttsVars,
                       speechSupported, effectVars>>

(* startAudio() resolves: the adapter holds a local audio track. *)
ResumeAudioResolved ==
    \E c \in BagToSet(pending) :
        /\ c.op = "resume" /\ c.pc = "audio"
        /\ localAudioTrack' = TRUE
        /\ pending' = Take(c)
        /\ last' = Step("resume", "audioResolved", {})
        /\ UNCHANGED <<screenVars, speechVars, livekitConnected,
                       livekitConnecting, livekitError, remoteVars, endNotified,
                       ttsVars, speechSupported>>
        /\ Render(connectionStatus)

(* startAudio() rejects: logged, lines 179-181. *)
ResumeAudioRejected ==
    \E c \in BagToSet(pending) :
        /\ c.op = "resume" /\ c.pc = "audio"
        /\ pending' = Take(c)
        /\ last' = Step("resume", "audioRejected", {})
        /\ UNCHANGED <<coordVars, speechVars, lkVars, remoteVars, endNotified, ttsVars,
                       speechSupported, effectVars>>

(* ----------------------- endInterview, lines 185-200 -------------------- *)
(* disconnect() of the transport adapter: with a room connected or
   connecting it drops the room and emits onDisconnected (lines 80-83). *)
RoomExists == livekitConnected \/ livekitConnecting

(* endInterview() as invoked from a render whose voiceSession was vs, leaving
   the continuations `others` suspended besides its own: lines 186-191 run
   at once; without a session handle line 199 follows immediately. *)
(* What onDisconnected writes when disconnect() drops a room. *)
EndStatusWrite == IF RoomExists THEN "disconnected" ELSE connectionStatus

EndInterviewFrom(vs, others, op, pc) ==
    /\ isInterviewActive' = FALSE
    /\ isListening' = FALSE
    /\ localAudioTrack' = FALSE
    /\ livekitConnected' = FALSE
    /\ livekitConnecting' = FALSE
    /\ IF vs # NoSession
       THEN /\ pending' = others (+) SetToBag({Cont("end", "remote", vs, NoResult)})
            /\ endNotified' = endNotified
            /\ last' = Step(op, pc, {"stopListening", "stopAudio", "disconnect", "endSession"})
       ELSE /\ pending' = others
            /\ endNotified' = endNotified + 1
            /\ last' = Step(op, pc, {"stopListening", "stopAudio", "disconnect",
                                     "onEndInterview"})

EndInterview ==
    /\ voiceSession # NoSession => InFlight < MaxInFlight
    /\ endNotified + Suspended("end", "remote") < MaxEnds
    /\ EndInterviewFrom(voiceSession, pending, "end", "invoke")
    /\ UNCHANGED <<currentQuestion, startTime, isThinking, voiceSession,
                   transcript, livekitError, remoteVars, ttsVars,
                   speechSupported>>
    /\ Render(EndStatusWrite)

(* The awaited endInterview settles (a rejection is only logged, lines
   194-196; the session it names then stays open); line 199 follows. *)
EndSettled ==
    \E c \in BagToSet(pending), ok \in BOOLEAN :
        /\ c.op = "end" /\ c.pc = "remote"
        /\ openSessions' = IF ok THEN openSessions \ {c.vs} ELSE openSessions
        /\ endNotified' = endNotified + 1
        /\ pending' = Take(c)
        /\ last' = Step("end", IF ok THEN "resolved" ELSE "rejected", {"onEndInterview"})
        /\ UNCHANGED <<coordVars, speechVars, lkVars, nextSession, ttsVars,
                       speechSupported, effectVars>>

(* -------------------- submitVoiceResponse, lines 202-233 ---------------- *)
SubmitGuardPasses == Trim(transcript) # <<>> /\ voiceSession # NoSession

SubmitVoiceResponse ==
    IF ~SubmitGuardPasses
    THEN /\ last' = Step("submit", "noop", {})
         /\ UNCHANGED <<coordVars, speechVars, lkVars, remoteVars, endNotified,
                        pending, ttsVars, speechSupported, effectVars>>
    ELSE /\ InFlight < MaxInFlight
         /\ isListening' = FALSE
         /\ isThinking' = TRUE
         /\ pending' = Suspend(Cont("submit", "remote", voiceSession, NoResult))
         /\ last' = Step("submit", "invoke", {"stopListening", "submitResponse"})
         /\ UNCHANGED <<isInterviewActive, currentQuestion, startTime, voiceSession,
                        transcript, lkVars, remoteVars, endNotified, ttsVars,
                        speechSupported>>
         /\ Render(connectionStatus)

(* Mutant: the failure path resets the transcript as the success path does. *)
SubmitRemoteRejectedResets ==
    \E c \in BagToSet(pending) :
        /\ c.op = "submit" /\ c.pc = "remote"
        /\ isThinking' = FALSE
        /\ transcript' = <<>>
        /\ pending' = Take(c)
        /\ last' = Step("submit", "remoteRejected", {"resetTranscript"})
        /\ UNCHANGED <<isInterviewActive, currentQuestion, startTime,
                       voiceSession, isListening, lkVars, remoteVars,
                       endNotified, ttsVars, speechSupported>>
        /\ Render(connectionStatus)

(* processVoiceResponse rejects: catch (lines 228-230), then line 232. *)
SubmitRemoteRejected ==
    \E c \in BagToSet(pending) :
        /\ c.op = "submit" /\ c.pc = "remote"
        /\ isThinking' = FALSE
        /\ pending' = Take(c)
        /\ last' = Step("submit", "remoteRejected", {})
        /\ UNCHANGED <<isInterviewActive, currentQuestion, startTime,
                       voiceSession, speechVars, lkVars, remoteVars, endNotified,
                       ttsVars, speechSupported>>
        /\ Render(connectionStatus)

(* processVoiceResponse resolves with a result; simulator.submitResponse is
   awaited next, line 220. *)
SubmitRemoteResolved ==
    \E c \in BagToSet(pending), r \in Results :
        /\ c.op = "submit" /\ c.pc = "remote"
        /\ pending' = Take(c) (+) SetToBag({Cont("submit", "simulator", c.vs, r)})
        /\ last' = Step("submit", "remoteResolved", {"simulatorSubmit"})
        /\ UNCHANGED <<coordVars, speechVars, lkVars, remoteVars, endNotified, ttsVars,
                       speechSupported, effectVars>>

(* Mutant: setIsThinking(false) sits inside the try block, so a rejection
   skips it. *)
SubmitSimulatorRejectedKeepsThinking ==
    \E c \in BagToSet(pending) :
        /\ c.op = "submit" /\ c.pc = "simulator"
        /\ pending' = Take(c)
        /\ last' = Step("submit", "simulatorRejected", {})
        /\ UNCHANGED <<coordVars, speechVars, lkVars, remoteVars, endNotified, ttsVars,
                       speechSupported, effectVars>>

(* simulator.submitResponse rejects: catch, then line 232. *)
SubmitSimulatorRejected ==
    \E c \in BagToSet(pending) :
        /\ c.op = "submit" /\ c.pc = "simulator"
        /\ isThinking' = FALSE
        /\ pending' = Take(c)
        /\ last' = Step("submit", "simulatorRejected", {})
        /\ UNCHANGED <<isInterviewActive, currentQuestion, startTime,
                       voiceSession, speechVars, lkVars, remoteVars, endNotified,
                       ttsVars, speechSupported>>
        /\ Render(connectionStatus)

(* It resolves and the result says the interview is complete: endInterview()
   is called without being awaited (line 223), then line 232. *)
SubmitCompleted ==
    \E c \in BagToSet(pending) :
        /\ c.op = "submit" /\ c.pc = "simulator"
        /\ c.res.isComplete
        /\ endNotified + Suspended("end", "remote") < MaxEnds
        /\ EndInterviewFrom(c.vs, Take(c), "submit", "complete")
        /\ isThinking' = FALSE
        /\ UNCHANGED <<currentQuestion, startTime, voiceSession, transcript,
                       livekitError, remoteVars, ttsVars, speechSupported>>
        /\ Render(EndStatusWrite)

(* Mutant: the next question is shown but resetTranscript() is not called. *)
SubmitNextQuestionNoReset ==
    \E c \in BagToSet(pending) :
        /\ c.op = "submit" /\ c.pc = "simulator"
        /\ ~c.res.isComplete
        /\ c.res.nextQuestion # NoQuestion
        /\ currentQuestion' = c.res.nextQuestion
        /\ isThinking' = FALSE
        /\ pending' = Take(c)
        /\ last' = Step("submit", "nextQuestion", {})
        /\ UNCHANGED <<isInterviewActive, startTime, voiceSession, speechVars,
                       lkVars, remoteVars, endNotified, ttsVars, speechSupported>>
        /\ Render(connectionStatus)

(* It resolves, the interview goes on and a next question came: lines 224-226,
   then line 232. *)
SubmitNextQuestion ==
    \E c \in BagToSet(pending) :
        /\ c.op = "submit" /\ c.pc = "simulator"
        /\ ~c.res.isComplete
        /\ c.res.nextQuestion # NoQuestion
        /\ currentQuestion' = c.res.nextQuestion
        /\ transcript' = <<>>
        /\ isThinking' = FALSE
        /\ pending' = Take(c)
        /\ last' = Step("submit", "nextQuestion", {"resetTranscript"})
        /\ UNCHANGED <<isInterviewActive, startTime, voiceSession, isListening,
                       lkVars, remoteVars, endNotified, ttsVars, speechSupported>>
        /\ Render(connectionStatus)

(* It resolves with neither completion nor a next question: only line 232. *)
SubmitNothingNext ==
    \E c \in BagToSet(pending) :
        /\ c.op = "submit" /\ c.pc = "simulator"
        /\ ~c.res.isComplete
        /\ c.res.nextQuestion = NoQuestion
        /\ isThinking' = FALSE
        /\ pending' = Take(c)
        /\ last' = Step("submit", "nothingNext", {})
        /\ UNCHANGED <<isInterviewActive, currentQuestion, startTime,
                       voiceSession, speechVars, lkVars, remoteVars, endNotified,
                       ttsVars, speechSupported>>
        /\ Render(connectionStatus)

(* ---------------------- toggleMicrophone, lines 235-243 ----------------- *)
ToggleMicrophone ==
    IF isListening
    THEN /\ isListening' = FALSE
         /\ localAudioTrack' = FALSE
         /\ last' = Step("toggle", "off", {"stopListening", "stopAudio"})
         /\ UNCHANGED <<screenVars, transcript, livekitConnected, livekitConnecting,
                        livekitError, remoteVars, endNotified, pending, ttsVars,
                        speechSupported>>
         /\ Render(connectionStatus)
    ELSE /\ InFlight < MaxInFlight
         /\ pending' = Suspend(Cont("toggle", "audio", NoSession, NoResult))
         /\ last' = Step("toggle", "invoke", {"startAudio"})
         /\ UNCHANGED <<coordVars, speechVars, lkVars, remoteVars, endNotified, ttsVars,
                        speechSupported, effectVars>>

(* startAudio() resolves: the adapter holds a track, startListening() runs. *)
ToggleAudioResolved ==
    \E c \in BagToSet(pending) :
        /\ c.op = "toggle" /\ c.pc = "audio"
        /\ localAudioTrack' = TRUE
        /\ isListening' = TRUE
        /\ pending' = Take(c)
        /\ last' = Step("toggle", "audioResolved", {"startListening"})
        /\ UNCHANGED <<screenVars, transcript, livekitConnected,
                       livekitConnecting, livekitError, remoteVars, endNotified,
                       ttsVars, speechSupported>>
        /\ Render(connectionStatus)

(* startAudio() rejects: toggleMicrophone rejects, startListening never runs. *)
ToggleAudioRejected ==
    \E c \in BagToSet(pending) :
        /\ c.op = "toggle" /\ c.pc = "audio"
        /\ pending' = Take(c)
        /\ last' = Step("toggle", "audioRejected", {})
        /\ UNCHANGED <<coordVars, speechVars, lkVars, remoteVars, endNotified, ttsVars,
                       speechSupported, effectVars>>

(* --------------------------- adapter events ----------------------------- *)
(* The speech-input adapter updates the transcript while it listens. *)
TranscriptUpdate ==
    \E t \in Transcripts :
        /\ isListening
        /\ t # transcript
        /\ transcript' = t
        /\ last' = Step("transcript", "update", {})
        /\ UNCHANGED <<screenVars, isListening, lkVars, remoteVars, endNotified,
                       pending, ttsVars, speechSupported>>
        /\ Render(connectionStatus)

(* The transport adapter signals an error, in any state: onError, lines
   84-87. The adapter reports the error and no connection. *)
TransportError ==
    /\ livekitConnected' = FALSE
    /\ livekitError' = TRUE
    /\ last' = Step("transport", "error", {})
    /\ UNCHANGED <<isInterviewActive, currentQuestion, startTime, isThinking,
                   voiceSession, speechVars, livekitConnecting, localAudioTrack,
                   remoteVars, endNotified, pending, ttsVars, speechSupported>>
    /\ Render("error")

(* The transport adapter signals a disconnect, in any state:
   onDisconnected, lines 80-83. The adapter reports no connection. *)
TransportDisconnected ==
    /\ livekitConnected' = FALSE
    /\ last' = Step("transport", "disconnected", {})
    /\ UNCHANGED <<isInterviewActive, currentQuestion, startTime, isThinking,
                   voiceSession, speechVars, livekitConnecting, livekitError,
                   localAudioTrack, remoteVars, endNotified, pending, ttsVars,
                   speechSupported>>
    /\ Render("disconnected")

(* The queued effects run before any further step: the timer effect (lines
   93-101, its cleanup first), the audio level effect (lines 104-114) and
   the status effect (lines 117-127). *)
RunEffects ==
    /\ effectsPending # {}
    /\ effectsPending' = {}
    /\ connectionStatus' = StatusAfterEffects(connectionStatus)
    /\ tickInterval' = TickAfterEffects
    /\ audioInterval' = AudioAfterEffects
    /\ last' = Step("effect", "run", {})
    /\ UNCHANGED <<screenVars, speechVars, lkVars, remoteVars, endNotified, pending,
                   ttsVars, speechSupported>>

(* ------------------- BrowserTTS, speechSynthesis.ts --------------------- *)
(* What is known of one speak() call: how often each callback fired, the
   values passed to resolve() or returned (the promise takes the first),
   how often the returned promise was rejected, whether a later speak()
   cancelled its utterance, and whether the callbacks the caller passed
   throw when they are called. *)
NewCall(throws) ==
    [onStart |-> 0, onEnd |-> 0, onError |-> 0, resolved |-> <<>>,
     superseded |-> FALSE, raised |-> 0, callbacksThrow |-> throws]
Fire(entry, cb) == [entry EXCEPT ![cb] = @ + 1]
Resolve(entry, v) == [entry EXCEPT !.resolved = Append(@, v)]
Raise(entry) == [entry EXCEPT !.raised = @ + 1]

(* A callback is called and then a value resolved or returned, inside
   speak() (lines 90-91, 155-156): a callback that throws makes the
   returned promise reject. *)
NotifyThenReturn(entry, cb, v) ==
    IF entry.callbacksThrow THEN Raise(Fire(entry, cb)) ELSE Resolve(Fire(entry, cb), v)

(* The same inside an event handler of the utterance (lines 125-126,
   133-134): a callback that throws ends the handler before resolve(), and
   the promise stays pending. *)
NotifyThenResolve(entry, cb, v) ==
    IF entry.callbacksThrow THEN Fire(entry, cb) ELSE Resolve(Fire(entry, cb), v)

(* The utterance the platform speaks: the oldest it holds. *)
Oldest(S) == CHOOSE u \in S : \A v \in S : u <= v

(* stop(), lines 161-167, as the new values of the slot and the platform's
   queue: synthesis.cancel() empties the queue. *)
StopQueue == IF currentUtterance # NoUtterance THEN {} ELSE platformQueue

(* The utterances synthesis.cancel() removes still get a terminal event
   from the platform. *)
StopCancelled ==
    IF currentUtterance # NoUtterance THEN cancelled \cup platformQueue ELSE cancelled

(* The utterances a stop() inside speak() cancels are superseded. *)
Supersede(log) ==
    [c \in DOMAIN log |->
        IF currentUtterance # NoUtterance /\ c \in platformQueue
        THEN [log[c] EXCEPT !.superseded = TRUE] ELSE log[c]]

(* stop() called by a user of the adapter, lines 161-167. When
   synthesis.cancel() throws (line 163) the exception leaves stop() before
   line 164: the slot keeps its utterance, and the platform may or may not
   have carried the cancel out. *)
Stop ==
    /\ \/ /\ currentUtterance' = NoUtterance
          /\ platformQueue' = StopQueue
          /\ cancelled' = StopCancelled
       \/ /\ currentUtterance # NoUtterance
          /\ currentUtterance' = currentUtterance
          /\ \E carriedOut \in BOOLEAN :
                 /\ platformQueue' = IF carriedOut THEN {} ELSE platformQueue
                 /\ cancelled' = IF carriedOut THEN cancelled \cup platformQueue
                                               ELSE cancelled
    /\ last' = Step("tts", "stop", IF currentUtterance # NoUtterance THEN {"cancel"} ELSE {})
    /\ UNCHANGED <<coordVars, speechVars, lkVars, remoteVars, endNotified, pending,
                   nextUtt, isSupported, callLog, voices, preferredVoice,
                   speechSupported, effectVars>>

(* pause(), lines 169-174: forwarded to the platform while the slot holds
   an utterance. *)
TtsPause ==
    /\ last' = Step("tts", "pause",
                    IF currentUtterance # NoUtterance THEN {"platformPause"} ELSE {})
    /\ UNCHANGED <<coordVars, speechVars, lkVars, remoteVars, endNotified, pending,
                   ttsVars, speechSupported, effectVars>>

(* resume(), lines 176-181: forwarded likewise. *)
TtsResume ==
    /\ last' = Step("tts", "resume",
                    IF currentUtterance # NoUtterance THEN {"platformResume"} ELSE {})
    /\ UNCHANGED <<coordVars, speechVars, lkVars, remoteVars, endNotified, pending,
                   ttsVars, speechSupported, effectVars>>

(* How the supported path of speak() may go: the utterance is handed to the
   platform; platform.speak() throws (line 150); the utterance constructor
   throws (line 98); cancel() inside stop() throws (lines 95, 163). *)
SpeakOutcomes == {"spoken", "speakThrew", "constructorThrew", "cancelThrew"}

(* speak(), lines 81-159, for a call whose outcome is among `outcomes` and
   whose callbacks throw or not as `throwing` allows. Without the capability
   (lines 88-92) onError fires and a failure is returned, no utterance is
   created. With it: stop(), a new utterance takes the slot (line 146) and
   is handed to the platform (line 150). When that throws (lines 152-157)
   onError fires, a failure is resolved and the slot keeps an utterance the
   platform never took. A throwing constructor, after stop(), and a
   throwing cancel(), which the platform may or may not have carried out
   and which leaves the slot as it was, reject the returned promise. *)
Speak(maxUtt, outcomes, throwing) ==
    /\ nextUtt <= maxUtt
    /\ nextUtt' = nextUtt + 1
    /\ \E throws \in throwing :
         IF ~isSupported
         THEN /\ callLog' = Append(callLog,
                                   NotifyThenReturn(NewCall(throws), "onError", "failure"))
              /\ last' = Step("tts", "speakUnsupported", {"onError"})
              /\ UNCHANGED <<currentUtterance, platformQueue, cancelled>>
         ELSE \/ /\ "spoken" \in outcomes
                 /\ currentUtterance' = nextUtt
                 /\ platformQueue' = StopQueue \cup {nextUtt}
                 /\ cancelled' = StopCancelled
                 /\ callLog' = Append(Supersede(callLog), NewCall(throws))
                 /\ last' = Step("tts", "speak", {})
              \/ /\ "speakThrew" \in outcomes
                 /\ currentUtterance' = nextUtt
                 /\ platformQueue' = StopQueue
                 /\ cancelled' = StopCancelled
                 /\ callLog' = Append(Supersede(callLog),
                                      NotifyThenReturn(NewCall(throws), "onError", "failure"))
                 /\ last' = Step("tts", "speakThrew", {"onError"})
              \/ /\ "constructorThrew" \in outcomes
                 /\ currentUtterance' = NoUtterance
                 /\ platformQueue' = StopQueue
                 /\ cancelled' = StopCancelled
                 /\ callLog' = Append(Supersede(callLog), Raise(NewCall(throws)))
                 /\ last' = Step("tts", "constructorThrew", {})
              \/ /\ "cancelThrew" \in outcomes
                 /\ currentUtterance # NoUtterance
                 /\ currentUtterance' = currentUtterance
                 /\ \E carriedOut \in BOOLEAN :
                        /\ platformQueue' = IF carriedOut THEN {} ELSE platformQueue
                        /\ cancelled' = IF carriedOut THEN cancelled \cup platformQueue
                                                      ELSE cancelled
                        /\ callLog' = Append(IF carriedOut THEN Supersede(callLog)
                                                           ELSE callLog,
                                             Raise(NewCall(throws)))
                 /\ last' = Step("tts", "cancelThrew", {"cancel"})
    /\ UNCHANGED <<coordVars, speechVars, lkVars, remoteVars, endNotified, pending,
                   isSupported, voices, preferredVoice, speechSupported, effectVars>>

(* The platform delivers a start event for the oldest utterance it holds:
   onstart, lines 117-120, calls onStart each time. *)
UtteranceStarted ==
    \E u \in platformQueue :
        /\ u = Oldest(platformQueue)
        /\ callLog[u].onStart < MaxStartEvents
        /\ callLog' = [callLog EXCEPT ![u] = Fire(@, "onStart")]
        /\ last' = Step("tts", "onstart", {"onStart"})
        /\ UNCHANGED <<coordVars, speechVars, lkVars, remoteVars, endNotified,
                       pending, currentUtterance, platformQueue, nextUtt,
                       isSupported, cancelled, voices, preferredVoice,
                       speechSupported, effectVars>>

(* The onend handler (lines 122-127) or the onerror handler (lines 129-135)
   of utterance u: the slot is emptied whichever utterance holds it, the
   callback is called and, unless it threw, the call's promise is
   resolved. *)
Terminal(u, ok) ==
    /\ currentUtterance' = NoUtterance
    /\ callLog' = [callLog EXCEPT ![u] =
                      IF ok THEN NotifyThenResolve(@, "onEnd", "success")
                            ELSE NotifyThenResolve(@, "onError", "failure")]

(* The platform reports that the utterance it speaks ended, or that one it
   holds failed. *)
UtteranceSettled ==
    \E u \in platformQueue, ok \in BOOLEAN :
        /\ ok => u = Oldest(platformQueue)
        /\ platformQueue' = platformQueue \ {u}
        /\ Terminal(u, ok)
        /\ last' = Step("tts", IF ok THEN "onend" ELSE "onerror",
                        IF ok THEN {"onEnd"} ELSE {"onError"})
        /\ UNCHANGED <<coordVars, speechVars, lkVars, remoteVars, endNotified,
                       pending, nextUtt, isSupported, cancelled, voices,
                       preferredVoice, speechSupported, effectVars>>

(* The platform delivers the terminal event of an utterance that
   synthesis.cancel() removed: an error event (interrupted, canceled) or,
   on some platforms, an end event. The same handlers run. *)
CancelledUtteranceSettled ==
    \E u \in cancelled, ok \in BOOLEAN :
        /\ cancelled' = cancelled \ {u}
        /\ Terminal(u, ok)
        /\ last' = Step("tts", IF ok THEN "lateOnend" ELSE "lateOnerror",
                        IF ok THEN {"onEnd"} ELSE {"onError"})
        /\ UNCHANGED <<coordVars, speechVars, lkVars, remoteVars, endNotified,
                       pending, platformQueue, nextUtt, isSupported, voices,
                       preferredVoice, speechSupported, effectVars>>

(* ------------------------ recurring timers ------------------------------ *)
(* The timer effect, lines 92-101: its last run created the one-second
   interval when that render had isInterviewActive and a start time; its
   cleanup clears the interval at its next run. *)
TickRunning == tickInterval

(* The audio level effect, lines 103-114: its last run created the 100 ms
   interval when the adapter held a local audio track. *)
AudioPollRunning == audioInterval

(* ---------------------------- specifications ---------------------------- *)
(* The controls as rendered, lines 326-355 and 449-475; the microphone
   button is rendered only with speech recognition, line 449. *)
(* Mutant: the start button without disabled={isThinking}. *)
StartEnabledIgnoringThinking == ~isInterviewActive
StartEnabled == ~isInterviewActive /\ ~isThinking
PauseEnabled == isInterviewActive
ToggleEnabled ==
    speechSupported /\ isInterviewActive /\ connectionStatus = "connected"
SubmitEnabled == isInterviewActive /\ Trim(transcript) # <<>> /\ ~isThinking

UIStart == StartEnabled /\ StartVoiceInterview
UIPause == PauseEnabled /\ PauseInterview
UIEnd == EndInterview
UIToggle == ToggleEnabled /\ ToggleMicrophone
UISubmit == SubmitEnabled /\ SubmitVoiceResponse

(* resumeInterview has no control; as a command it is defined from Paused. *)
ResumeFromPaused == SessionState = "Paused" /\ ResumeInterview

SettleStart ==
    \/ StartSessionRejected \/ StartSessionResolved
    \/ StartConnectResolved \/ StartConnectRejected

SettleResume ==
    \/ ResumeRemoteResolved \/ ResumeRemoteRejected
    \/ ResumeAudioResolved \/ ResumeAudioRejected

SettleSubmit ==
    \/ SubmitRemoteRejected \/ SubmitRemoteResolved \/ SubmitSimulatorRejected
    \/ SubmitCompleted \/ SubmitNextQuestion \/ SubmitNothingNext

SettleToggle == ToggleAudioResolved \/ ToggleAudioRejected

AdapterEvent == TranscriptUpdate \/ TransportError \/ TransportDisconnected

(* The screen driven through its controls, each usable only while enabled. *)
NextUI ==
    \/ UIStart \/ UIPause \/ UIEnd \/ UIToggle \/ UISubmit
    \/ SettleStart \/ PauseSettled \/ EndSettled \/ SettleSubmit \/ SettleToggle
    \/ AdapterEvent \/ RunEffects

SpecUI == Init /\ [][NextUI]_vars

(* The same, with the shared speech-output adapter speaking alongside, on a
   platform and with callbacks that do not throw. *)
NextUITts == NextUI \/ Speak(MaxUttCoord, {"spoken"}, {FALSE}) \/ UtteranceSettled

SpecUITts == Init /\ [][NextUITts]_vars

(* The speech-output adapter alone, driven by its callers and the platform,
   on a platform with or without the capability. *)
InitTts == \E supported \in BOOLEAN : InitScreen(TRUE) /\ InitAdapter(supported, <<>>)

NextTts ==
    \/ Speak(MaxUttTts, SpeakOutcomes, BOOLEAN) \/ Stop \/ TtsPause \/ TtsResume
    \/ UtteranceStarted \/ UtteranceSettled \/ CancelledUtteranceSettled

SpecTts == InitTts /\ [][NextTts]_vars

(* The same adapter on a platform that eventually reports the end or an
   error of every utterance it still holds. *)
SpecTtsFair == SpecTts /\ WF_vars(UtteranceSettled)

(* The platform announces a changed voice list: the voiceschanged listener
   (lines 32-34, registered only with the capability) runs loadVoices
   (lines 39-44), which replaces the catalog by what getVoices() returns. *)
LoadVoices ==
    \E catalog \in Catalogs :
        /\ isSupported
        /\ voices' = catalog
        /\ last' = Step("tts", "voiceschanged", {})
        /\ UNCHANGED <<coordVars, speechVars, lkVars, remoteVars, endNotified, pending,
                       currentUtterance, platformQueue, nextUtt, isSupported,
                       cancelled, callLog, preferredVoice, speechSupported,
                       effectVars>>

(* getPreferredVoice(lang) called on the catalog loaded last. *)
AskPreferredVoice ==
    \E lang \in QueryLangs :
        /\ preferredVoice' = [asked |-> TRUE, lang |-> lang,
                              voice |-> GetPreferredVoice(voices, lang)]
        /\ last' = Step("tts", "getPreferredVoice", {})
        /\ UNCHANGED <<coordVars, speechVars, lkVars, remoteVars, endNotified, pending,
                       currentUtterance, platformQueue, nextUtt, isSupported,
                       cancelled, callLog, voices,
                       speechSupported, effectVars>>

(* Voice selection over every catalog the constructor may have loaded
   (line 28) and every later change of it. *)
InitVoice == \E catalog \in Catalogs : InitScreen(TRUE) /\ InitAdapter(TRUE, catalog)

NextVoice == AskPreferredVoice \/ LoadVoices

SpecVoice == InitVoice /\ [][NextVoice]_vars

(* The same screen with the handler entry points no enabled control reaches:
   pauseInterview and submitVoiceResponse called in any state, and
   resumeInterview called when Paused. *)
Next ==
    \/ UIStart \/ PauseInterview \/ ResumeFromPaused \/ UIEnd \/ UIToggle
    \/ SubmitVoiceResponse
    \/ SettleStart \/ PauseSettled \/ SettleResume \/ EndSettled \/ SettleSubmit
    \/ SettleToggle
    \/ AdapterEvent \/ RunEffects

Spec == Init /\ [][Next]_vars

(* ------------------------------- claims --------------------------------- *)
EndReleased ==
    /\ ~isListening
    /\ ~localAudioTrack
    /\ ~livekitConnected /\ ~livekitConnecting
    /\ platformQueue = {}

(* C1: whenever end() completes (the host is notified), the state is Ended
   and speech-input listening, local audio, the transport connection and any
   in-flight speech-output utterance have all been released. *)
C1_EndReleasesEverything ==
    [][endNotified' > endNotified => (SessionState = "Ended" /\ EndReleased)']_vars

(* C2: a pause() issued while the session is already Paused leaves it Paused
   and issues no stopListening, stopAudio or remote pauseSession call. *)
C2_PauseIdempotent ==
    [][(SessionState = "Paused" /\ last'.op = "pause" /\ last'.pc = "invoke")
          => (SessionState' = "Paused" /\ last'.calls = {})]_vars

(* C3: when the session creation awaited by a start() rejects, the status
   shown is error and the state Error (unless the interview was ended
   meanwhile) and is not Active,
   that start issues no connect call and nothing of it stays suspended, and
   the step stores no session handle and acquires no resource; after a
   first start no handle, no open remote session and no resource exists. *)
C3_StartRejectedLeavesNothing ==
    [][(last'.op = "start" /\ last'.pc = "sessionRejected")
          => /\ connectionStatus' = "error"
             /\ ~isInterviewActive'
             /\ endNotified = 0 => SessionState' = "Error"
             /\ "connect" \notin last'.calls
             /\ (Suspended("start", "session") + Suspended("start", "connect"))' = 0
             /\ UNCHANGED <<voiceSession, isListening, lkVars, openSessions>>
             /\ voiceSession = NoSession =>
                    (/\ voiceSession = NoSession /\ openSessions = {}
                     /\ ~isListening /\ ~localAudioTrack
                     /\ ~livekitConnected /\ ~livekitConnecting)']_vars

(* C4: when connect rejects after the session was created, the remote
   end-session is invoked for that session by the failing start. *)
C4_ConnectRejectedEndsSession ==
    [][(last'.op = "start" /\ last'.pc = "connectRejected")
          => "endSession" \in last'.calls]_vars

(* A transcript that is empty or holds only whitespace. *)
IsBlank(t) == \A i \in 1..Len(t) : t[i] = " "

(* C5: submitResponse() invoked with a blank transcript or with no session
   handle makes no call, leaves listening and the thinking flag alone and
   changes nothing of the session, the question or the transcript. *)
C5_SubmitNoop ==
    [][(last'.op = "submit" /\ last'.pc \in {"noop", "invoke"}
            /\ (IsBlank(transcript) \/ voiceSession = NoSession))
          => /\ last'.calls = {}
             /\ UNCHANGED <<coordVars, speechVars, lkVars, remoteVars,
                            endNotified, pending>>]_vars

W5_BlankSubmitWithSession ==
    /\ last.op = "submit" /\ last.pc = "noop"
    /\ transcript = <<" ">> /\ voiceSession # NoSession /\ isInterviewActive

(* The end-session protocol was started by the last step: listening, audio
   and transport released, and the remote end-session requested or (with no
   session handle) the host notified. *)
EndProtocolRun ==
    /\ {"stopListening", "stopAudio", "disconnect"} \subseteq last.calls
    /\ "endSession" \in last.calls \/ "onEndInterview" \in last.calls
    /\ ~isInterviewActive /\ ~isListening /\ ~localAudioTrack /\ ~livekitConnected

(* The session state once the effects that earlier steps queued have run:
   a step that itself leaves the session state alone ends in this state. *)
SessionStateAfterEffects == SessionStateWith(StatusAfterEffects(connectionStatus))

(* A submission got through both awaited calls with result c.res. *)
SubmitSucceeds(c) ==
    /\ c.op = "submit" /\ c.pc = "simulator"
    /\ pending' = Take(c) \/ Suspended("end", "remote")' > Suspended("end", "remote")
    /\ last'.op = "submit" /\ last'.pc # "simulatorRejected"

(* C6 as stated: a successful submission whose result is not complete sets
   the current question to the returned next question (when one came),
   empties the transcript and leaves the session state as it was (as the
   effects queued by earlier steps leave it); a complete result runs the
   end-session protocol. *)
C6_SubmitAdvancesOrEnds ==
    [][\A c \in BagToSet(pending) : SubmitSucceeds(c) =>
          IF c.res.isComplete
          THEN EndProtocolRun'
          ELSE /\ c.res.nextQuestion # NoQuestion => currentQuestion' = c.res.nextQuestion
               /\ transcript' = <<>>
               /\ SessionState' = SessionStateAfterEffects]_vars

(* C6, amended: the same, for a result that is not complete and carries a
   next question; a complete result runs the end-session protocol. *)
C6_SubmitAdvancesOnNextQuestion ==
    [][\A c \in BagToSet(pending) : SubmitSucceeds(c) =>
          IF c.res.isComplete
          THEN EndProtocolRun'
          ELSE c.res.nextQuestion # NoQuestion
                  => /\ currentQuestion' = c.res.nextQuestion
                     /\ transcript' = <<>>
                     /\ SessionState' = SessionStateAfterEffects]_vars

W6_Advanced ==
    /\ last.op = "submit" /\ last.pc = "nextQuestion"
    /\ currentQuestion = "q2" /\ transcript = <<>> /\ SessionState = "Active"

(* C7: when the remote call of a submission rejects, the session state (as
   the effects queued by earlier steps leave it), the current question and
   the transcript are as before, the session is not ended, and nothing is
   called or left suspended to retry. *)
C7_SubmitFailureKeepsTranscript ==
    [][(last'.op = "submit" /\ last'.pc = "remoteRejected")
          => /\ SessionState' = SessionStateAfterEffects
             /\ UNCHANGED <<isInterviewActive, currentQuestion, transcript,
                            voiceSession, endNotified, openSessions>>
             /\ last'.calls = {}
             /\ Suspended("submit", "remote")' = 0
             /\ Suspended("end", "remote")' = Suspended("end", "remote")]_vars

W7_FailedWhileActive ==
    /\ last.op = "submit" /\ last.pc = "remoteRejected"
    /\ SessionState = "Active" /\ ~IsBlank(transcript) /\ endNotified = 0

(* The last step took a start or a submission out of its last await. *)
ThinkingExit ==
    \/ last.op = "start" /\ last.pc \in {"sessionRejected", "connectResolved", "connectRejected"}
    \/ last.op = "submit" /\ last.pc \in {"remoteRejected", "simulatorRejected", "complete",
                                          "nextQuestion", "nothingNext"}

(* C8: the thinking flag is clear after every exit of a start or a
   submission, and it is never set while no start or submission is
   suspended. *)
C8_ThinkingCleared ==
    /\ ThinkingExit => ~isThinking
    /\ isThinking =>
          Suspended("start", "session") + Suspended("start", "connect")
            + Suspended("submit", "remote") + Suspended("submit", "simulator") > 0

W8_ClearedAfterCompletion ==
    /\ last.op = "submit" /\ last.pc = "complete"
    /\ ~isThinking

(* C9: local audio capture and speech-input listening are both active or
   both inactive. *)
C9_AudioAndListeningMatch == isListening <=> localAudioTrack

(* C10: a resume() whose remote resume and audio re-acquisition succeed ends
   Active with local audio held; one whose remote resume or audio
   re-acquisition fails ends in Error. *)
C10_ResumeFailureIsError ==
    [][/\ (last'.op = "resume" /\ last'.pc = "audioResolved")
             => (isInterviewActive' /\ localAudioTrack')
       /\ (last'.op = "resume" /\ last'.pc \in {"remoteRejected", "audioRejected"})
             => SessionState' = "Error"]_vars

(* C11: a transport error or an asynchronous disconnect signalled while the
   session is Connecting, Active or Paused makes the session state Error:
   the session is no longer Active. *)
C11_TransportErrorIsError ==
    [][(last'.op = "transport" /\ SessionState \in {"Connecting", "Active", "Paused"})
          => (SessionState' = "Error" /\ ~isInterviewActive')]_vars

(* C12: in the Error state the start/resume, pause, microphone and submit
   controls are all disabled. *)
C12_ErrorDisablesControls ==
    SessionState = "Error"
      => ~(StartEnabled \/ PauseEnabled \/ ToggleEnabled \/ SubmitEnabled)

(* end() has been invoked: its remote end-session is awaited or the host has
   been notified. *)
EndInvoked == endNotified > 0 \/ Suspended("end", "remote") > 0

(* C13: once end() has been invoked the session is never Active again and
   neither listening, local audio nor the transport connection (connected
   or connecting) is re-acquired. *)
C13_EndedIsTerminal ==
    EndInvoked => /\ ~isInterviewActive
                  /\ ~isListening /\ ~localAudioTrack
                  /\ ~livekitConnected /\ ~livekitConnecting

(* C18: the displayed connection status always equals the priority
   derivation from the transport adapter's signals: connecting, else
   connected, else error, else disconnected. *)
C18_StatusIsDerived ==
    connectionStatus = DeriveStatus(livekitConnecting, livekitConnected, livekitError)

(* C19: the elapsed-time tick runs only while the session is Active, and
   while it is not Active neither the tick nor the audio-level poll runs. *)
C19_TimersOnlyWhileActive ==
    /\ TickRunning => SessionState = "Active"
    /\ SessionState # "Active" => (~TickRunning /\ ~AudioPollRunning)

(* C20: the host is notified of the end at most once, and at most one
   remote end-session call is made for a session handle. *)
C20_EndNotifiedOnce ==
    /\ endNotified <= 1
    /\ \A c \in BagToSet(pending) : c.op = "end" => pending[c] <= 1

(* C14: the platform never holds two utterances of the adapter that are
   neither cancelled nor completed. *)
C14_OneUtteranceInFlight == Cardinality(platformQueue) <= 1

(* C15: neither onEnd nor onError ever fires for a speak() call whose
   utterance a later speak() superseded, and at most one of them fires for
   any call. *)
C15_SupersededNeverCompletes ==
    \A c \in DOMAIN callLog :
        /\ callLog[c].superseded => (callLog[c].onEnd = 0 /\ callLog[c].onError = 0)
        /\ callLog[c].onEnd + callLog[c].onError <= 1

(* C16: for every speak() call each callback fires at most once, the
   returned promise is never rejected and exactly one value is resolved:
   never a second, and eventually a first, provided the platform eventually
   reports end or error for every utterance it still holds. A call made
   without the capability returns a failure at once and creates no
   utterance, a call whose hand-over throws resolves a failure at once, any
   other call is unresolved until the platform reports its utterance's end
   (then success is resolved) or error (then failure). *)
C16_CallbacksOnce ==
    /\ \A n \in 1..MaxUttTts :
          (Len(callLog) >= n) ~> (Len(callLog) >= n /\ Len(callLog[n].resolved) = 1)
    /\ [][\A c \in DOMAIN callLog' :
             /\ callLog'[c].onStart <= 1 /\ callLog'[c].onEnd <= 1 /\ callLog'[c].onError <= 1
             /\ Len(callLog'[c].resolved) <= 1
             /\ callLog'[c].raised = 0
             /\ c \notin DOMAIN callLog =>
                   IF ~isSupported
                   THEN /\ callLog'[c].resolved = <<"failure">>
                        /\ callLog'[c].onError = 1
                        /\ UNCHANGED <<currentUtterance, platformQueue>>
                   ELSE IF last'.pc = "speakThrew"
                   THEN callLog'[c].resolved = <<"failure">> /\ callLog'[c].onError = 1
                   ELSE callLog'[c].resolved = <<>>
             /\ (c \in DOMAIN callLog /\ callLog'[c] # callLog[c]
                   /\ last'.pc \in {"onend", "lateOnend"})
                   => (callLog[c].resolved = <<>> /\ callLog'[c].resolved = <<"success">>)
             /\ (c \in DOMAIN callLog /\ callLog'[c] # callLog[c]
                   /\ last'.pc \in {"onerror", "lateOnerror"})
                   => (callLog[c].resolved = <<>> /\ callLog'[c].resolved = <<"failure">>)
             /\ (c \in DOMAIN callLog /\ last'.pc \notin {"onend", "lateOnend", "onerror", "lateOnerror"})
                   => callLog'[c].resolved = callLog[c].resolved]_vars

(* The first voice of the catalog, in catalog order, that satisfies P. *)
FirstThat(catalog, P(_)) ==
    IF \E i \in 1..Len(catalog) : P(catalog[i])
    THEN <<catalog[CHOOSE i \in 1..Len(catalog) :
                      P(catalog[i]) /\ \A j \in 1..(i - 1) : ~P(catalog[j])]>>
    ELSE NoVoice

(* The 3-tier reference: hinted voice of the language, else voice of the
   language, else first voice, else none. *)
ThreeTier(catalog, lang) ==
    LET OfLang(v) == StartsWith(v.lang, PrimarySubtag(lang))
        Hinted(v) == OfLang(v) /\ \E token \in HintTokens : Includes(ToLower(v.name), token)
        AnyVoice(v) == TRUE
    IN  IF FirstThat(catalog, Hinted) # NoVoice THEN FirstThat(catalog, Hinted)
        ELSE IF FirstThat(catalog, OfLang) # NoVoice THEN FirstThat(catalog, OfLang)
        ELSE FirstThat(catalog, AnyVoice)

(* C17: getPreferredVoice(lang) returns what the 3-tier reference gives for
   lang and the catalog loaded when it is called. *)
C17_PreferredVoiceIsThreeTier ==
    [][(last'.op = "tts" /\ last'.pc = "getPreferredVoice")
          => /\ preferredVoice'.asked
             /\ preferredVoice'.voice = ThreeTier(voices, preferredVoice'.lang)]_vars

W17_HintedOverEarlier ==
    /\ last.op = "tts" /\ last.pc = "getPreferredVoice"
    /\ preferredVoice.asked
    /\ voices = <<VTom, VZira>>
    /\ preferredVoice.lang = PrimarySubtag(VTom.lang) \o <<"-", "U", "S">>
    /\ preferredVoice.voice = <<VZira>>

(* C21: at most one remote session is open at any time, and none stays
   open once the host has been notified of the end with no end-session
   request still awaited. *)
C21_OneOpenSession ==
    /\ Cardinality(openSessions) <= 1
    /\ (endNotified > 0 /\ InFlight = 0) => openSessions = {}

(* C22: neither speech-input listening nor local audio capture is active
   while the session is Paused or Ended. *)
C22_NoCaptureWhilePausedOrEnded ==
    SessionState \in {"Paused", "Ended"} => (~isListening /\ ~localAudioTrack)

(* C23: with commands invoked only through enabled controls, at most one
   submission is suspended, no start is suspended while one is, the thinking
   flag stays set while one is, and the submit and start controls are
   disabled while the thinking flag is set (submit also while not Active). *)
C23_OneSubmissionInFlight ==
    LET submissions == Suspended("submit", "remote") + Suspended("submit", "simulator")
        starts == Suspended("start", "session") + Suspended("start", "connect")
    IN  /\ submissions <= 1
        /\ submissions > 0 => (starts = 0 /\ isThinking)
        /\ SubmitEnabled => (isInterviewActive /\ ~isThinking)
        /\ StartEnabled => ~isThinking

W23_SubmissionSuspendedWhilePaused ==
    /\ Suspended("submit", "simulator") = 1
    /\ SessionState = "Paused"
    /\ ~IsBlank(transcript)
    /\ ~StartEnabled /\ ~SubmitEnabled

(* C24: the slot holds an utterance exactly when the platform holds an
   utterance of the adapter, and stop(), pause() and resume() call the
   platform exactly when it holds one. *)
C24_SlotIffInFlight ==
    [][/\ (currentUtterance' # NoUtterance) <=> (platformQueue' # {})
       /\ (last'.op = "tts" /\ last'.pc \in {"stop", "pause", "resume"})
             => ((last'.calls # {}) <=> (platformQueue # {}))]_vars

(* C25: the result of every speak() call is eventually resolved, provided
   the platform eventually reports end or error for every utterance it
   still holds. *)
C25_SpeakResolves ==
    \A c \in 1..MaxUttTts :
        (Len(callLog) >= c) ~> (Len(callLog) >= c /\ callLog[c].resolved # <<>>)

====
